---- MODULE Spec2Model ----
(***************************************************************************)
(* Model of the result validation engine of spark-rapids-benchmarks,       *)
(* src/nds-h/nds_h_validate.py: compare / rowEqual (value and row          *)
(* comparison), collect_results (column exclusion and ordering),           *)
(* compare_results (the per-query driver) and update_summary (the run      *)
(* status reconciliation).                                                  *)
(*                                                                         *)
(* Numbers are integer valued: a Float, Decimal or Integer value n stands  *)
(* for the number n, so Integer 1, Decimal 1 and Float 1.0 differ only in  *)
(* their type tag.  Floats are the finite values and NaN; infinities and   *)
(* binary rounding are not modelled.                                       *)
(***************************************************************************)
EXTENDS Integers, Sequences, FiniteSets, TLC

VARIABLES
    \* ---- compare(expected, actual, epsilon) under test
    expected, actual, cmp, vpc,
    \* ---- arguments of compare_results
    query_name, ignore_ordering, use_iterator, max_errors, epsilon, df1, df2,
    \* ---- locals of compare_results
    pc, count1, count2, result1, result2, errors, i, verdict,
    \* ---- observations of one compare_results run
    collectCalls, materialized, fetched, rowEqualCalls, sortKey1, sortKey2,
    \* ---- a second run on inputs that differ in the excluded column only
    twin1, twin2, runNo, firstVerdict,
    \* ---- __main__ and update_summary
    sub_queries, query_dict, unmatch_queries, json_summary_folder,
    nfiles, summaries, summaries0, upc, k, visited

valueVars == <<expected, actual, cmp, vpc>>
argVars == <<query_name, ignore_ordering, use_iterator, max_errors, df1, df2>>
localVars == <<pc, count1, count2, result1, result2, errors, i, verdict>>
obsVars == <<collectCalls, materialized, fetched, rowEqualCalls, sortKey1, sortKey2>>
twinVars == <<twin1, twin2, runNo, firstVerdict>>
summaryVars == <<sub_queries, query_dict, unmatch_queries, json_summary_folder,
                 nfiles, summaries, summaries0, upc, k, visited>>
vars == <<valueVars, epsilon, argVars, localVars, obsVars, twinVars, summaryVars>>

(***************************************************************************)
(* Values: the Python objects a collected pyspark Row holds.               *)
(***************************************************************************)
Val(t, n) == [t |-> t, n |-> n, nan |-> FALSE]
None == [t |-> "Null", n |-> 0, nan |-> FALSE]
NaN == [t |-> "Float", n |-> 0, nan |-> TRUE]

BoolValues == {Val("Boolean", 0), Val("Boolean", 1)}
IntValues == {Val("Integer", n) : n \in {0, 1, 2, 100000, 100001}}
DecimalValues == {Val("Decimal", n) : n \in {-2, 0, 1, 2, 100000, 100001, 100002}}
FloatValues == {Val("Float", n) : n \in {-2, 0, 1, 2, 100000, 100001, 100002}} \cup {NaN}
TextValues == {Val("Text", 1), Val("Text", 2)}
Values == {None} \cup BoolValues \cup IntValues \cup DecimalValues \cup FloatValues \cup TextValues

\* epsilon as a fraction num/den; 1/100000 is the default of --epsilon
Eps(num, den) == [num |-> num, den |-> den]
DefaultEpsilon == Eps(1, 100000)
Epsilons == {Eps(0, 1), DefaultEpsilon, Eps(1, 2), Eps(1, 1)}

Abs(x) == IF x < 0 THEN -x ELSE x
Max(x, y) == IF x >= y THEN x ELSE y

\* d <= |rel * x| for an integer d >= 0: d <= q iff d <= floor(q)
WithinTol(d, rel, x) == d <= (rel.num * Abs(x)) \div rel.den

isfloat(v) == v.t = "Float"
isDecimal(v) == v.t = "Decimal"
isnan(v) == v.nan

\* math.isclose(a, b, rel_tol=rel), abs_tol = 0, on finite values and NaN:
\* a == b, else diff <= |rel*b| or diff <= |rel*a| or diff <= abs_tol;
\* every comparison with a NaN operand is false
iscloseOneSided(a, b, rel) ==
    IF a.nan \/ b.nan THEN FALSE
    ELSE a.n = b.n \/ WithinTol(Abs(b.n - a.n), rel, b.n)

isclose(a, b, rel) ==
    IF a.nan \/ b.nan THEN FALSE
    ELSE \/ a.n = b.n
         \/ WithinTol(Abs(b.n - a.n), rel, b.n)
         \/ WithinTol(Abs(b.n - a.n), rel, a.n)
         \/ Abs(b.n - a.n) <= 0

\* Python's == on the scalar objects: bool is an int, and int, float and
\* Decimal compare by numeric value across types; NaN equals nothing
IsNumber(v) == v.t \in {"Boolean", "Integer", "Decimal", "Float"}
PyEq(a, b) ==
    IF IsNumber(a) /\ IsNumber(b) THEN ~a.nan /\ ~b.nan /\ a.n = b.n
    ELSE a.t = b.t /\ a.n = b.n

compare(e, a, eps) ==
    IF isfloat(e) /\ isfloat(a)
    THEN (IF isnan(e) /\ isnan(a) THEN TRUE ELSE isclose(e, a, eps))
    ELSE IF isDecimal(e) /\ isDecimal(a)
         THEN isclose(e, a, eps)
         ELSE PyEq(e, a)

(***************************************************************************)
(* Datasets: a schema (columns with their Spark type names) and rows       *)
(* aligned to it.                                                          *)
(***************************************************************************)
Column(name, type) == [name |-> name, type |-> type]
OrderKey == Column("o_orderkey", "long")
Name == Column("c_name", "string")
TotalPrice == Column("o_totalprice", "decimal")
SumQty == Column("sum_qty", "double")
Discount == Column("l_discount", "float")

\* the values a column of each Spark type collects to
ColumnValues(type) ==
    CASE type = "long" -> {Val("Integer", 1), Val("Integer", 2)}
      [] type = "string" -> {Val("Text", 1), None}
      [] type = "decimal" -> {Val("Decimal", 1), Val("Decimal", 2)}
      [] type = "double" -> {Val("Float", 1), NaN}
      [] type = "float" -> {Val("Float", 1), Val("Float", 2)}

MaxRows == 2
MaxCap == 2

\* query outputs with the excluded column of query18, and without it
OrderKeySchemas == {<<OrderKey, Name>>, <<SumQty, OrderKey>>}
Schemas == OrderKeySchemas \cup {<<TotalPrice, Name>>, <<Discount, TotalPrice>>}
RowsOf(schema) ==
    {r \in [DOMAIN schema -> UNION {ColumnValues(schema[j].type) : j \in DOMAIN schema}] :
        \A j \in DOMAIN schema : r[j] \in ColumnValues(schema[j].type)}
Datasets(schema) ==
    {[schema |-> schema, rows |-> r] :
        r \in UNION {[1..n -> RowsOf(schema)] : n \in 0..MaxRows}}
NoData == [schema |-> <<>>, rows |-> <<>>]

SKIP_QUERIES == {"query15_part1", "query15_part3"}
SKIP_COLUMNS == [q \in {"query18"} |-> {"o_orderkey"}]
DefaultMaxErrors == 10

(***************************************************************************)
(* collect_results: df.drop, the sort key, df.sort.                        *)
(***************************************************************************)
\* the positions of the columns df.drop(*names) keeps
KeptPositions(schema, names) ==
    LET Keep(p) == schema[p].name \notin names
        RECURSIVE Pos(_)
        Pos(p) == IF p > Len(schema) THEN <<>>
                  ELSE (IF Keep(p) THEN <<p>> ELSE <<>>) \o Pos(p + 1)
    IN Pos(1)

Project(seq, positions) == [j \in 1..Len(positions) |-> seq[positions[j]]]

drop(df, names) ==
    LET kept == KeptPositions(df.schema, names)
    IN [schema |-> Project(df.schema, kept),
        rows |-> [r \in 1..Len(df.rows) |-> Project(df.rows[r], kept)]]

keepAllColumns(df, q) == df

\* lines 131-132
dropSkipColumns(df, q) ==
    IF q \in DOMAIN SKIP_COLUMNS THEN drop(df, SKIP_COLUMNS[q]) ELSE df

IsFloatColumn(c) == c.type \in {"float", "double"}
NamesOf(cols) == [j \in 1..Len(cols) |-> cols[j].name]
non_float_cols(df) == NamesOf(SelectSeq(df.schema, LAMBDA c : ~IsFloatColumn(c)))
float_cols(df) == NamesOf(SelectSeq(df.schema, IsFloatColumn))

floatsFirstKey(df) == float_cols(df) \o non_float_cols(df)

\* the argument of df.sort, line 140
sortColumns(df) == non_float_cols(df) \o float_cols(df)

\* Spark's ascending order on one column: nulls first, NaN after every number
ValLess(a, b) ==
    IF a.t = "Null" \/ b.t = "Null" THEN a.t = "Null" /\ b.t # "Null"
    ELSE IF a.nan \/ b.nan THEN ~a.nan /\ b.nan
    ELSE a.n < b.n

PositionOf(schema, name) == CHOOSE p \in DOMAIN schema : schema[p].name = name

\* lexicographic order of two rows on the key columns
RowLess(schema, key, r1, r2) ==
    \E j \in DOMAIN key :
        /\ ValLess(r1[PositionOf(schema, key[j])], r2[PositionOf(schema, key[j])])
        /\ \A h \in 1..(j - 1) :
              r1[PositionOf(schema, key[h])] = r2[PositionOf(schema, key[h])]

RECURSIVE Insert(_, _, _, _)
Insert(schema, key, row, sorted) ==
    IF sorted = <<>> THEN <<row>>
    ELSE IF RowLess(schema, key, row, Head(sorted)) THEN <<row>> \o sorted
    ELSE <<Head(sorted)>> \o Insert(schema, key, row, Tail(sorted))

RECURSIVE SortRows(_, _, _)
SortRows(schema, key, rows) ==
    IF rows = <<>> THEN <<>>
    ELSE Insert(schema, key, Head(rows), SortRows(schema, key, Tail(rows)))

\* df.sort(cols)
sort(df, key) == [schema |-> df.schema, rows |-> SortRows(df.schema, key, df.rows)]

\* df.toLocalIterator() and iter(df.collect()) yield the rows in the same order
toLocalIterator(df) == df.rows
collect(df) == df.rows

\* the DataFrame after lines 131-140
prepared(df, q, ignore) ==
    LET d == dropSkipColumns(df, q)
    IN IF ignore THEN sort(d, sortColumns(d)) ELSE d

\* the iterator collect_results returns: the rows not yet taken from it
collect_results(df, q, ignore, iterator) ==
    IF iterator THEN toLocalIterator(prepared(df, q, ignore))
    ELSE collect(prepared(df, q, ignore))

\* the rows df.collect() loads into the driver, none in iterator mode
rowsLoaded(df, q, ignore, iterator) ==
    IF iterator THEN 0 ELSE Len(collect(prepared(df, q, ignore)))

\* the key handed to df.sort, <<>> when no sort is applied
sortKeyOf(df, q, ignore) ==
    IF ignore THEN sortColumns(dropSkipColumns(df, q)) ELSE <<>>

\* zip(row1, row2) stops at the shorter row
rowEqual(row1, row2, eps) ==
    \A j \in 1..(IF Len(row1) <= Len(row2) THEN Len(row1) ELSE Len(row2)) :
        compare(row1[j], row2[j], eps)

(***************************************************************************)
(* compare_results, one action per step of the function.                   *)
(***************************************************************************)
IdleValue ==
    /\ expected = None /\ actual = None /\ cmp = <<>> /\ vpc = "idle"

IdleDriver ==
    /\ query_name = "none" /\ ignore_ordering = FALSE /\ use_iterator = FALSE
    /\ max_errors = 0
    /\ df1 = NoData /\ df2 = NoData
    /\ pc = "idle" /\ count1 = 0 /\ count2 = 0
    /\ result1 = <<>> /\ result2 = <<>>
    /\ errors = 0 /\ i = 0 /\ verdict = "none"
    /\ collectCalls = 0 /\ materialized = 0 /\ fetched = 0 /\ rowEqualCalls = 0
    /\ sortKey1 = <<>> /\ sortKey2 = <<>>

IdleTwin ==
    /\ twin1 = NoData /\ twin2 = NoData /\ runNo = 1 /\ firstVerdict = "none"

\* the state on entry to compare_results
EnterDriver ==
    /\ pc = "start" /\ count1 = 0 /\ count2 = 0
    /\ result1 = <<>> /\ result2 = <<>>
    /\ errors = 0 /\ i = 0 /\ verdict = "none"
    /\ collectCalls = 0 /\ materialized = 0 /\ fetched = 0 /\ rowEqualCalls = 0
    /\ sortKey1 = <<>> /\ sortKey2 = <<>>

countsAlwaysEqual(c1, c2) == TRUE

\* line 97
countsEqual(c1, c2) == c1 = c2

loopWhileRowsLeft(n, e, cap) == n > 0

\* line 104, with n the rows not yet compared
loopContinues(n, e, cap) == n > 0 /\ e < cap

\* lines 89-90
SkipQuery ==
    /\ pc = "start"
    /\ query_name \in SKIP_QUERIES
    /\ verdict' = TRUE
    /\ pc' = "done"
    /\ UNCHANGED <<count1, count2, result1, result2, errors, i>>
    /\ UNCHANGED <<valueVars, epsilon, argVars, obsVars, twinVars, summaryVars>>

\* lines 92-95
CountRows ==
    /\ pc = "start"
    /\ query_name \notin SKIP_QUERIES
    /\ count1' = Len(df1.rows)
    /\ count2' = Len(df2.rows)
    /\ pc' = "counted"
    /\ UNCHANGED <<result1, result2, errors, i, verdict>>
    /\ UNCHANGED <<valueVars, epsilon, argVars, obsVars, twinVars, summaryVars>>

\* lines 97, 122-124
CountMismatch ==
    /\ pc = "counted"
    /\ ~countsEqual(count1, count2)
    /\ verdict' = FALSE
    /\ pc' = "done"
    /\ UNCHANGED <<count1, count2, result1, result2, errors, i>>
    /\ UNCHANGED <<valueVars, epsilon, argVars, obsVars, twinVars, summaryVars>>

\* lines 97-103
CollectBoth ==
    /\ pc = "counted"
    /\ countsEqual(count1, count2)
    /\ result1' = collect_results(df1, query_name, ignore_ordering, use_iterator)
    /\ result2' = collect_results(df2, query_name, ignore_ordering, use_iterator)
    /\ materialized' = rowsLoaded(df1, query_name, ignore_ordering, use_iterator)
                        + rowsLoaded(df2, query_name, ignore_ordering, use_iterator)
    /\ sortKey1' = sortKeyOf(df1, query_name, ignore_ordering)
    /\ sortKey2' = sortKeyOf(df2, query_name, ignore_ordering)
    /\ collectCalls' = collectCalls + 2
    /\ errors' = 0
    /\ i' = 0
    /\ pc' = "loop"
    /\ UNCHANGED <<count1, count2, verdict, fetched, rowEqualCalls>>
    /\ UNCHANGED <<valueVars, epsilon, argVars, twinVars, summaryVars>>

\* lines 104-110; an exhausted iterator raises StopIteration
LoopStep ==
    /\ pc = "loop"
    /\ loopContinues(count1 - i, errors, max_errors)
    /\ IF result1 = <<>> \/ result2 = <<>>
       THEN /\ pc' = "raised"
            /\ UNCHANGED <<result1, result2, errors, i, fetched, rowEqualCalls>>
       ELSE /\ result1' = Tail(result1)
            /\ result2' = Tail(result2)
            /\ fetched' = fetched + 2
            /\ rowEqualCalls' = rowEqualCalls + 1
            /\ errors' = IF rowEqual(Head(result1), Head(result2), epsilon)
                         THEN errors ELSE errors + 1
            /\ i' = i + 1
            /\ pc' = "loop"
    /\ UNCHANGED <<count1, count2, verdict, collectCalls, materialized,
                   sortKey1, sortKey2>>
    /\ UNCHANGED <<valueVars, epsilon, argVars, twinVars, summaryVars>>

\* lines 111-121
Finish ==
    /\ pc = "loop"
    /\ ~loopContinues(count1 - i, errors, max_errors)
    /\ verdict' = IF errors = max_errors THEN FALSE
                  ELSE IF errors = 0 THEN TRUE
                  ELSE FALSE
    /\ pc' = "done"
    /\ UNCHANGED <<count1, count2, result1, result2, errors, i>>
    /\ UNCHANGED <<valueVars, epsilon, argVars, obsVars, twinVars, summaryVars>>

IdleSummary ==
    /\ sub_queries = {} /\ query_dict = <<>> /\ unmatch_queries = {}
    /\ json_summary_folder = "none" /\ nfiles = <<>> /\ summaries = <<>>
    /\ summaries0 = <<>> /\ upc = "idle" /\ k = 0 /\ visited = <<>>

Caps == 0..MaxCap

\* 15 rows that all differ, compared under the default cap of 10
FifteenRows(n) == [schema |-> <<OrderKey>>,
                   rows |-> [r \in 1..15 |-> <<Val("Integer", n)>>]]

\* query15_part1 creates a view and has no output; query18's output holds
\* o_orderkey
Inputs ==
    \/ /\ query_name = "query15_part1"
       /\ max_errors \in Caps
       /\ df1 = NoData /\ df2 = NoData
    \/ /\ query_name = "query18"
       /\ max_errors \in Caps
       /\ \E s \in OrderKeySchemas : df1 \in Datasets(s) /\ df2 \in Datasets(s)
    \/ /\ query_name = "query1"
       /\ max_errors \in Caps
       /\ \E s \in Schemas : df1 \in Datasets(s) /\ df2 \in Datasets(s)
    \/ /\ query_name = "query1"
       /\ max_errors = DefaultMaxErrors
       /\ df1 = FifteenRows(1) /\ df2 = FifteenRows(2)

Init ==
    /\ IdleValue /\ IdleTwin /\ IdleSummary
    /\ epsilon = DefaultEpsilon
    /\ ignore_ordering \in BOOLEAN
    /\ use_iterator \in BOOLEAN
    /\ Inputs
    /\ EnterDriver

Next ==
    \/ SkipQuery
    \/ CountRows
    \/ CountMismatch
    \/ CollectBoth
    \/ LoopStep
    \/ Finish

Spec == Init /\ [][Next]_vars

(***************************************************************************)
(* Specification SpecTwin: query18 validated twice, the second time on     *)
(* inputs whose o_orderkey values were all replaced.  Two inputs that      *)
(* differ in o_orderkey only have the same replacement, so a verdict that  *)
(* survives the replacement is the same for both.                          *)
(***************************************************************************)
Replaced(df, names, v) ==
    [schema |-> df.schema,
     rows |-> [r \in 1..Len(df.rows) |->
                 [j \in 1..Len(df.schema) |->
                    IF df.schema[j].name \in names THEN v ELSE df.rows[r][j]]]]

InitTwin ==
    /\ IdleValue /\ IdleSummary
    /\ epsilon = DefaultEpsilon
    /\ ignore_ordering \in BOOLEAN
    /\ use_iterator \in BOOLEAN
    /\ query_name = "query18"
    /\ max_errors \in Caps
    /\ \E s \in OrderKeySchemas : df1 \in Datasets(s) /\ df2 \in Datasets(s)
    /\ twin1 = Replaced(df1, SKIP_COLUMNS[query_name], Val("Integer", 1))
    /\ twin2 = Replaced(df2, SKIP_COLUMNS[query_name], Val("Integer", 2))
    /\ runNo = 1
    /\ firstVerdict = "none"
    /\ EnterDriver

\* the second invocation of compare_results, on the replaced inputs
Rerun ==
    /\ pc = "done"
    /\ runNo = 1
    /\ firstVerdict' = verdict
    /\ runNo' = 2
    /\ df1' = twin1
    /\ df2' = twin2
    /\ twin1' = df1
    /\ twin2' = df2
    /\ pc' = "start" /\ count1' = 0 /\ count2' = 0
    /\ result1' = <<>> /\ result2' = <<>>
    /\ errors' = 0 /\ i' = 0 /\ verdict' = "none"
    /\ collectCalls' = 0 /\ materialized' = 0 /\ fetched' = 0 /\ rowEqualCalls' = 0
    /\ sortKey1' = <<>> /\ sortKey2' = <<>>
    /\ UNCHANGED <<query_name, ignore_ordering, use_iterator, max_errors, epsilon>>
    /\ UNCHANGED <<valueVars, summaryVars>>

NextTwin ==
    \/ CountRows
    \/ CountMismatch
    \/ CollectBoth
    \/ LoopStep
    \/ Finish
    \/ Rerun

SpecTwin == InitTwin /\ [][NextTwin]_vars

(***************************************************************************)
(* Specification SpecSummary: __main__ from the parsed query stream to     *)
(* update_summary.  The suite and get_query_subset come from nds_h_power;  *)
(* unmatch_queries is what iterate_queries returned.                       *)
(***************************************************************************)
\* gen_sql_from_stream: the query identifiers in stream order
Suite == <<"query1", "query15_part1", "query18">>
SuiteIds == {Suite[j] : j \in DOMAIN Suite}

\* get_query_subset: the entries of the dictionary the subset names
get_query_subset(dict, subset) == SelectSeq(dict, LAMBDA q : q \in subset)

MaxFiles == 2
QueryStatuses == {<<"Completed">>, <<"CompletedWithTaskFailures">>, <<"Failed">>}
Summary(status) == [queryStatus |-> status, queryValidationStatus |-> <<>>]

Contains(list, x) == \E j \in DOMAIN list : list[j] = x

acceptsSeveralFiles(n) == n = 0

\* lines 230-233: the checks on len(file_glob) that raise
globRaises(n) == n > 1 \/ n = 0

statusOfExactlyCompleted(failed, queryStatus) ==
    IF failed
    THEN (IF queryStatus = <<"Completed">> THEN <<"Fail">> ELSE <<"NotAttempted">>)
    ELSE <<"Pass">>

\* lines 238-244
validationStatus(failed, queryStatus) ==
    IF failed
    THEN (IF Contains(queryStatus, "Completed")
             \/ Contains(queryStatus, "CompletedWithTaskFailures")
          THEN <<"Fail">>
          ELSE <<"NotAttempted">>)
    ELSE <<"Pass">>

InitSummary ==
    /\ IdleValue /\ IdleDriver /\ IdleTwin
    /\ epsilon = DefaultEpsilon
    /\ sub_queries \in SUBSET SuiteIds
    /\ query_dict = Suite
    /\ unmatch_queries \in SUBSET ((IF sub_queries = {} THEN SuiteIds
                                    ELSE sub_queries) \ SKIP_QUERIES)
    /\ json_summary_folder \in {"none", "missing", "present"}
    /\ nfiles \in [SuiteIds -> 0..MaxFiles]
    /\ summaries \in [SuiteIds -> {Summary(st) : st \in QueryStatuses}]
    /\ \A q \in SuiteIds : nfiles[q] # 1 => summaries[q] = Summary(<<"Failed">>)
    /\ summaries0 = summaries
    /\ upc = "main"
    /\ k = 0
    /\ visited = <<>>

\* lines 289-303; --sub_queries absent or empty is falsy (the empty set here)
RestrictQueries ==
    /\ upc = "main"
    /\ query_dict' = IF sub_queries # {}
                     THEN get_query_subset(query_dict, sub_queries)
                     ELSE query_dict
    /\ upc' = "iterated"
    /\ UNCHANGED <<sub_queries, unmatch_queries, json_summary_folder, nfiles,
                   summaries, summaries0, k, visited>>
    /\ UNCHANGED <<valueVars, epsilon, argVars, localVars, obsVars, twinVars>>

\* line 304, no --json_summary_folder
NoSummaryFolder ==
    /\ upc = "iterated"
    /\ json_summary_folder = "none"
    /\ upc' = "exit"
    /\ UNCHANGED <<sub_queries, query_dict, unmatch_queries, json_summary_folder,
                   nfiles, summaries, summaries0, k, visited>>
    /\ UNCHANGED <<valueVars, epsilon, argVars, localVars, obsVars, twinVars>>

\* lines 304-305, 222-224
CheckFolder ==
    /\ upc = "iterated"
    /\ json_summary_folder # "none"
    /\ IF json_summary_folder = "missing"
       THEN upc' = "error" /\ k' = k
       ELSE upc' = "loop" /\ k' = 1
    /\ UNCHANGED <<sub_queries, query_dict, unmatch_queries, json_summary_folder,
                   nfiles, summaries, summaries0, visited>>
    /\ UNCHANGED <<valueVars, epsilon, argVars, localVars, obsVars, twinVars>>

\* lines 225-246, one iteration of the loop
VisitQuery ==
    /\ upc = "loop"
    /\ k <= Len(query_dict)
    /\ LET q == query_dict[k] IN
       /\ visited' = Append(visited, q)
       /\ IF globRaises(nfiles[q])
          THEN /\ upc' = "error"
               /\ UNCHANGED <<summaries, k>>
          ELSE /\ summaries' =
                     [summaries EXCEPT ![q].queryValidationStatus =
                        validationStatus(q \in unmatch_queries, summaries[q].queryStatus)]
               /\ k' = k + 1
               /\ upc' = "loop"
    /\ UNCHANGED <<sub_queries, query_dict, unmatch_queries, json_summary_folder,
                   nfiles, summaries0>>
    /\ UNCHANGED <<valueVars, epsilon, argVars, localVars, obsVars, twinVars>>

\* the loop of line 225 is exhausted
SummaryDone ==
    /\ upc = "loop"
    /\ k > Len(query_dict)
    /\ upc' = "done"
    /\ UNCHANGED <<sub_queries, query_dict, unmatch_queries, json_summary_folder,
                   nfiles, summaries, summaries0, k, visited>>
    /\ UNCHANGED <<valueVars, epsilon, argVars, localVars, obsVars, twinVars>>

NextSummary ==
    \/ RestrictQueries
    \/ NoSummaryFolder
    \/ CheckFolder
    \/ VisitQuery
    \/ SummaryDone

SpecSummary == InitSummary /\ [][NextSummary]_vars

(***************************************************************************)
(* Specification SpecValue: compare applied to every pair of values.       *)
(***************************************************************************)
InitValue ==
    /\ IdleDriver /\ IdleTwin /\ IdleSummary
    /\ expected \in Values
    /\ actual \in Values
    /\ epsilon \in Epsilons
    /\ cmp = <<>>
    /\ vpc = "call"

ApplyCompare ==
    /\ vpc = "call"
    /\ cmp' = <<compare(expected, actual, epsilon)>>
    /\ vpc' = "returned"
    /\ UNCHANGED <<expected, actual, epsilon, argVars, localVars, obsVars,
                   twinVars, summaryVars>>

\* the same call with the two arguments swapped
ApplySwapped ==
    /\ vpc = "returned"
    /\ cmp' = Append(cmp, compare(actual, expected, epsilon))
    /\ vpc' = "swapped"
    /\ UNCHANGED <<expected, actual, epsilon, argVars, localVars, obsVars,
                   twinVars, summaryVars>>

NextValue == ApplyCompare \/ ApplySwapped

SpecValue == InitValue /\ [][NextValue]_vars

(***************************************************************************)
(* Properties of compare (SpecValue).                                      *)
(***************************************************************************)
BothTolerant(e, a) ==
    \/ e.t = "Float" /\ a.t = "Float"
    \/ e.t = "Decimal" /\ a.t = "Decimal"

\* both NaN, or |e - a| <= eps * max(|e|, |a|); the difference is an integer,
\* so it is compared with the floor of the right-hand side
WithinRelativeTolerance(e, a, eps) ==
    \/ e.nan /\ a.nan
    \/ /\ ~e.nan /\ ~a.nan
       /\ Abs(e.n - a.n) <= (eps.num * Max(Abs(e.n), Abs(a.n))) \div eps.den

ExactType(v) == v.t \in {"Integer", "Text", "Boolean", "Null"}

\* C5: compare never reports two values of different types as equal, and for
\* two Integer, Text, Boolean or Null values it is true only on exact equality.
C5_DifferentTypesNeverEqual ==
    vpc \in {"returned", "swapped"} =>
        /\ expected.t # actual.t => cmp[1] = FALSE
        /\ (expected.t = actual.t /\ ExactType(expected)) =>
              cmp[1] = (expected = actual)

(***************************************************************************)
(* Properties of compare_results (Spec).                                   *)
(***************************************************************************)
\* C1: for a query off the skip list and every cap, 0 included, the verdict is
\* matched exactly when the row counts are equal and no mismatch was counted.
C1_MatchedIffCountsEqualAndNoMismatch ==
    (pc = "done" /\ query_name \notin SKIP_QUERIES) =>
        (verdict = TRUE <=> (count1 = count2 /\ errors = 0))

\* the rows of the two sides as collect_results yields them
Collected1 == collect_results(df1, query_name, ignore_ordering, use_iterator)
Collected2 == collect_results(df2, query_name, ignore_ordering, use_iterator)
AllRowsDiffer ==
    \A r \in 1..Len(Collected1) : ~rowEqual(Collected1[r], Collected2[r], epsilon)

\* C2: the mismatch counter never exceeds the cap; once it has reached the cap
\* no further row is taken from either side; when every row differs and there
\* are more rows than the cap, exactly cap mismatches are counted, the verdict
\* is failed and only the first cap rows of each side were read.
C2_CapBoundsMismatches ==
    [][/\ errors <= max_errors
       /\ errors' <= max_errors
       /\ (pc = "loop" /\ errors = max_errors) =>
             /\ fetched' = fetched
             /\ result1' = result1
             /\ result2' = result2
       /\ (pc = "loop" /\ pc' = "done" /\ AllRowsDiffer /\ count1 > max_errors) =>
             /\ errors' = max_errors
             /\ verdict' = FALSE
             /\ i' = max_errors
             /\ fetched' = 2 * max_errors
             /\ Len(result1') = count1 - max_errors
             /\ Len(result2') = count2 - max_errors]_vars

C2_Witness ==
    /\ pc = "done"
    /\ count1 = 15 /\ max_errors = DefaultMaxErrors
    /\ AllRowsDiffer
    /\ errors = 10 /\ i = 10 /\ verdict = FALSE
    /\ Len(result1) = 5 /\ Len(result2) = 5

\* C3: the row counts are compared before any row is collected; when they
\* differ the verdict is failed and there was no collect_results call, no row
\* fetch and no rowEqual call.
C3_CountMismatchFailsBeforeAnyRow ==
    /\ (collectCalls > 0 \/ fetched > 0 \/ rowEqualCalls > 0) =>
          /\ pc \in {"loop", "done"}
          /\ count1 = Len(df1.rows) /\ count2 = Len(df2.rows)
          /\ count1 = count2
    /\ (pc = "done" /\ query_name \notin SKIP_QUERIES
          /\ Len(df1.rows) # Len(df2.rows)) =>
          /\ verdict = FALSE
          /\ collectCalls = 0 /\ fetched = 0 /\ rowEqualCalls = 0

C3_Witness ==
    /\ pc = "done"
    /\ count1 = 2 /\ count2 = 1
    /\ verdict = FALSE
    /\ collectCalls = 0 /\ fetched = 0 /\ rowEqualCalls = 0

Occurrences(seq, x) == Cardinality({p \in DOMAIN seq : seq[p] = x})
SameMultiset(s, t) ==
    /\ Len(s) = Len(t)
    /\ \A p \in DOMAIN s : Occurrences(s, s[p]) = Occurrences(t, s[p])

\* C6: with ignore_ordering, two datasets holding the same multiset of rows in
\* any two physical orders compare as matched.
C6_PermutationsMatchWhenOrderingIgnored ==
    (pc = "done" /\ query_name \notin SKIP_QUERIES /\ ignore_ordering
        /\ SameMultiset(df1.rows, df2.rows)) =>
        verdict = TRUE

(***************************************************************************)
(* The sort key of collect_results (Spec).                                 *)
(***************************************************************************)
TypeOfColumn(schema, name) == schema[PositionOf(schema, name)].type
SchemaBefore(schema, x, y) == PositionOf(schema, x) < PositionOf(schema, y)

\* rows in nondecreasing order of the key
SortedBy(schema, key, rows) ==
    \A r \in 1..(Len(rows) - 1) : ~RowLess(schema, key, rows[r + 1], rows[r])

\* the key is a grouping of the schema's columns: the columns of types in
\* `last` after all others, schema order kept inside each of the two groups
GroupedKey(schema, key, last) ==
    /\ Len(key) = Len(schema)
    /\ {key[a] : a \in DOMAIN key} = {schema[p].name : p \in DOMAIN schema}
    /\ \A a, b \in DOMAIN key : a < b =>
          LET ta == TypeOfColumn(schema, key[a]) \in last
              tb == TypeOfColumn(schema, key[b]) \in last
          IN /\ ~(ta /\ ~tb)
             /\ (ta = tb) => SchemaBefore(schema, key[a], key[b])

JustCollected == pc = "loop" /\ i = 0
Dropped1 == dropSkipColumns(df1, query_name)
Dropped2 == dropSkipColumns(df2, query_name)

\* C10 as stated: with ignore_ordering the key is all non-floating, non-decimal
\* columns in schema order followed by all floating and decimal columns in
\* schema order, the same on both sides; without it the order is unchanged.
C10_FloatAndDecimalColumnsLast ==
    JustCollected =>
        IF ignore_ordering
        THEN /\ GroupedKey(Dropped1.schema, sortKey1, {"float", "double", "decimal"})
             /\ sortKey2 = sortKey1
        ELSE result1 = Dropped1.rows /\ result2 = Dropped2.rows

\* C10 amended: with ignore_ordering the key is all columns that are not float
\* or double (decimal columns among them) in schema order followed by the
\* float and double columns in schema order, the same on both sides, and each
\* side's rows come out as a permutation of its rows in nondecreasing order of
\* that key; without it the rows keep their order.
C10_FloatColumnsLast ==
    JustCollected =>
        IF ignore_ordering
        THEN /\ GroupedKey(Dropped1.schema, sortKey1, {"float", "double"})
             /\ sortKey2 = sortKey1
             /\ SortedBy(Dropped1.schema, sortKey1, result1)
             /\ SortedBy(Dropped2.schema, sortKey2, result2)
             /\ SameMultiset(result1, Dropped1.rows)
             /\ SameMultiset(result2, Dropped2.rows)
        ELSE result1 = Dropped1.rows /\ result2 = Dropped2.rows

C10_Witness ==
    /\ JustCollected
    /\ ignore_ordering
    /\ df1.schema = <<Discount, TotalPrice>>
    /\ sortKey1 = <<"o_totalprice", "l_discount">>
    /\ result1 # df1.rows

(***************************************************************************)
(* Column exclusion (SpecTwin).                                            *)
(***************************************************************************)
\* C7: the columns excluded for the query are dropped from both datasets
\* before the sort and the comparison, and the verdict is the same when the
\* values of the excluded column are replaced on both sides, with and without
\* ignore_ordering.
C7_VerdictIgnoresExcludedColumn ==
    /\ (runNo = 2 /\ pc = "done") => verdict = firstVerdict
    /\ JustCollected =>
          /\ \A a \in DOMAIN sortKey1 : sortKey1[a] \notin SKIP_COLUMNS[query_name]
          /\ \A a \in DOMAIN sortKey2 : sortKey2[a] \notin SKIP_COLUMNS[query_name]
          /\ \A r \in DOMAIN result1 : Len(result1[r]) = Len(df1.schema) - 1
          /\ \A r \in DOMAIN result2 : Len(result2[r]) = Len(df2.schema) - 1

C7_Witness ==
    /\ runNo = 2 /\ pc = "done"
    /\ ignore_ordering
    /\ count1 = 2
    /\ df1.rows # twin1.rows /\ df2.rows # twin2.rows
    /\ df1.rows # df2.rows
    /\ firstVerdict = TRUE /\ verdict = TRUE

(***************************************************************************)
(* Properties of update_summary (SpecSummary).                             *)
(***************************************************************************)
DictIds == {query_dict[j] : j \in DOMAIN query_dict}

ReconcilesOrAborts(ids) ==
    LET Bad(j) == nfiles[ids[j]] # 1 IN
    /\ upc = "done" =>
          /\ json_summary_folder = "present"
          /\ visited = ids
          /\ \A j \in DOMAIN ids : ~Bad(j)
    /\ upc = "loop" => \A j \in DOMAIN ids : j < k => ~Bad(j)
    /\ upc = "error" =>
          \/ json_summary_folder = "missing" /\ visited = <<>> /\ summaries = summaries0
          \/ /\ json_summary_folder = "present"
             /\ k \in DOMAIN ids
             /\ Bad(k)
             /\ \A j \in DOMAIN ids : j < k => ~Bad(j)
             /\ \A j \in DOMAIN ids : j >= k => summaries[ids[j]] = summaries0[ids[j]]

\* C9 as stated: update_summary visits every query identifier of the full
\* suite and requires exactly one matching file for it; on a missing folder or
\* on zero or several matches it aborts at once and modifies neither that
\* identifier's record nor any later one.
C9_VisitsFullSuite ==
    upc \in {"loop", "done", "error"} => ReconcilesOrAborts(Suite)

\* C9 amended: the same over the identifiers of query_dict, which is the full
\* suite only when no --sub_queries subset was given.
C9_VisitsQueryDict ==
    upc \in {"loop", "done", "error"} => ReconcilesOrAborts(query_dict)

C9_Witness ==
    /\ upc = "error"
    /\ sub_queries = {}
    /\ k = 2
    /\ nfiles[query_dict[2]] = 2
    /\ summaries[query_dict[1]] # summaries0[query_dict[1]]
    /\ summaries[query_dict[2]] = summaries0[query_dict[2]]
    /\ summaries[query_dict[3]] = summaries0[query_dict[3]]

====
